---- MODULE Spec2Model ----
(***************************************************************************)
(* Model of src/export_functions.py: the IDA function-list exporter.       *)
(*                                                                         *)
(* main() resolves a default file name, asks the user for the output path  *)
(* and calls export_functions(), which opens the path for writing, writes  *)
(* a heading, a timestamp, a table header, one row per function of the     *)
(* host and a summary line, and returns the number of rows.  Every         *)
(* statement of the two functions is one action; pc is the position of     *)
(* the single scripting thread.                                            *)
(*                                                                         *)
(* The text file object is buffered: write() appends to the buffer and     *)
(* the with-statement's exit flushes the buffer to the file and closes it. *)
(***************************************************************************)
EXTENDS Integers, Sequences, FiniteSets, TLC

VARIABLES
    pc,                 \* position of the scripting thread
    funcs,              \* host: idautils.Functions(), in host order
    disk,               \* file system: path -> [exists, content]
    default_filename,   \* main: default_filename
    output_path,        \* main / export_functions: output_path
    count,              \* export_functions: count
    index,              \* export_functions: index of enumerate(..., 1)
    current_time,       \* export_functions: current_time
    md_file,            \* the file object: "none", "open" or "closed"
    buf,                \* the file object's write buffer
    exc,                \* the exception raised in export_functions ("" if none)
    ret,                \* main: count, the value export_functions returned
    log,                \* print() output of this invocation
    dialogs,            \* host dialogs shown by this invocation
    lastGood            \* history: the previous call of export_functions, if it succeeded

vars == <<pc, funcs, disk, default_filename, output_path, count, index,
          current_time, md_file, buf, exc, ret, log, dialogs, lastGood>>

----------------------------------------------------------------------------
(* Bounds of the model *)

MaxFuncs == 2

(* Host data *)

Addrs == {4096, 8208, 43981}

Times == {"2026-11-05 10:00:00", "2026-11-05 10:00:01"}

RootFilename == "sample.exe"

HostName(ea) ==
    CASE ea = 4096 -> "main"
      [] ea = 8208 -> "sub_2010"
      [] OTHER     -> "start"

RECURSIVE SeqsUpTo(_)
SeqsUpTo(n) ==
    IF n = 0 THEN {<<>>}
    ELSE LET shorter == SeqsUpTo(n - 1)
         IN  shorter \cup
             {Append(s, a) : s \in {t \in shorter : Len(t) = n - 1}, a \in Addrs}

IsInjective(s) == \A i, j \in 1..Len(s) : s[i] = s[j] => i = j

\* The host's function table: distinct start addresses, in any host order.
HostTables == {s \in SeqsUpTo(MaxFuncs) : IsInjective(s)}

----------------------------------------------------------------------------
(* Python values *)

NoneValue == [tag |-> "None", dir |-> "", file |-> ""]

Str(d, f) == [tag |-> "str", dir |-> d, file |-> f]

EmptyStr == Str("", "")

\* bool(v) of None or a string
Truthy(v) == v.tag = "str" /\ ~(v.dir = "" /\ v.file = "")

NotReturned == [returned |-> FALSE, value |-> 0]

Returned(n) == [returned |-> TRUE, value |-> n]

----------------------------------------------------------------------------
(* String formatting *)

HexDigits == <<"0", "1", "2", "3", "4", "5", "6", "7",
               "8", "9", "A", "B", "C", "D", "E", "F">>

RECURSIVE Digits(_, _)
Digits(n, base) ==
    IF n < base THEN <<HexDigits[n + 1]>>
    ELSE Append(Digits(n \div base, base), HexDigits[(n % base) + 1])

\* f"0x{func_ea:X}"
FormatHex(ea) == <<"0", "x">> \o Digits(ea, 16)

\* f"{func_ea}"
FormatDec(ea) == Digits(ea, 10)

Line(kind, num, hex, dec, text) ==
    [kind |-> kind, num |-> num, hex |-> hex, dec |-> dec, text |-> text]

TitleLine(name) == Line("title", 0, <<>>, <<>>, name)

TimeLine(t) == Line("time", 0, <<>>, <<>>, t)

HeaderLine == Line("header", 0, <<>>, <<>>, "| # | Address (Hex) | Address (Dec) | Function Name |")

SeparatorLine == Line("separator", 0, <<>>, <<>>, "|------|--------------|------------|-------|")

RowLine(i, ea, name) == Line("row", i, FormatHex(ea), FormatDec(ea), name)

TotalLine(n) == Line("total", n, <<>>, <<>>, "functions")

----------------------------------------------------------------------------
(* The file system the script runs against *)

DefaultName == "exported_functions.md"

\* "idb": the directory of the loaded binary; "cwd": the working directory,
\* here one without write permission; "gone": a directory that does not exist.
DirState(d) ==
    CASE d = "idb"  -> "writable"
      [] d = "cwd"  -> "unwritable"
      [] OTHER      -> "missing"

Paths == {Str("idb", DefaultName), Str("cwd", DefaultName),
          Str("cwd", "old.md"), Str("cwd", "locked.md"), Str("gone", DefaultName)}

\* The permission of a file that exists: cwd/locked.md is read-only.
FileWritable(p) == p # Str("cwd", "locked.md")

ForeignLine == Line("foreign", 0, <<>>, <<>>, "earlier content")

NoFile == [exists |-> FALSE, content |-> <<>>]

File(content) == [exists |-> TRUE, content |-> content]

InitDisk ==
    [p \in Paths |->
        IF p \in {Str("cwd", "old.md"), Str("cwd", "locked.md")}
        THEN File(<<ForeignLine>>) ELSE NoFile]

\* open(path, 'w') as a plausible variant would do it after os.makedirs().
CanOpenMakedirs(p) ==
    IF disk[p].exists THEN FileWritable(p) ELSE DirState(p.dir) # "unwritable"

\* open(path, 'w') succeeds: an existing file needs its own write permission,
\* a new file needs an existing directory with write permission.
CanOpen(p) ==
    /\ DirState(p.dir) # "missing"
    /\ IF disk[p].exists THEN FileWritable(p) ELSE DirState(p.dir) = "writable"

\* mode 'a' instead of 'w'
TruncatedAppend(content) == content

\* mode 'w' empties the file
Truncated(content) == <<>>

\* leaving the with block without closing
ExitHandleLeak(h) == h

\* the with statement's exit closes the file object
ExitHandle(h) == "closed"

----------------------------------------------------------------------------
(* Messages *)

Msg(kind, n, path, text) == [kind |-> kind, n |-> n, path |-> path, text |-> text]

CancelledMsg == Msg("cancelled", 0, NoneValue, "Export cancelled")

SuccessMsg(n, path) == Msg("success", n, path, "Successfully exported")

FailedMsg(e) == Msg("failed", 0, NoneValue, e)

InfoDialog(n, path) == Msg("info", n, path, "Successfully exported")

NoGood == [ok |-> FALSE, path |-> NoneValue, time |-> "", content |-> <<>>]

----------------------------------------------------------------------------
(* Pieces of the code *)

\* enumerate(..., 1)
IndexStart == 1

\* re-sorting the host's list by address
RECURSIVE SortedInsert(_, _)
SortedInsert(s, a) ==
    IF s = <<>> THEN <<a>>
    ELSE IF a <= Head(s) THEN <<a>> \o s
    ELSE <<Head(s)>> \o SortedInsert(Tail(s), a)

RECURSIVE Sorted(_)
Sorted(s) == IF s = <<>> THEN <<>> ELSE SortedInsert(Sorted(Tail(s)), Head(s))

FunctionsSorted == Sorted(funcs)

\* idautils.Functions()
Functions == funcs

\* forgetting count += 1 on the first row
NextCountLate(c) == IF c = 0 THEN 0 ELSE c + 1

\* count += 1
NextCount(c) == c + 1

\* `if output_path is None`
CancelledNoneOnly(path) == path.tag = "None"

\* `if not output_path`
Cancelled(path) == ~Truthy(path)

\* `if count >= 0`
ShowsDialogAlways(n) == n >= 0

\* `if count > 0`
ShowsDialog(n) == n > 0

\* `return count` in the except clause
ExceptReturnCount == count

\* `return 0` in the except clause
ExceptReturn == 0

\* reporting success straight after the summary line, inside the with block
AfterTotalEarly == "print"

\* after the summary line the with block ends
AfterTotal == "exit"

----------------------------------------------------------------------------
(* Initial state: the script has not run yet *)

Init ==
    /\ pc = "idle"
    /\ funcs \in HostTables
    /\ disk = InitDisk
    /\ default_filename = NoneValue
    /\ output_path = NoneValue
    /\ count = 0
    /\ index = IndexStart
    /\ current_time = ""
    /\ md_file = "none"
    /\ buf = <<>>
    /\ exc = ""
    /\ ret = NotReturned
    /\ log = <<>>
    /\ dialogs = <<>>
    /\ lastGood = NoGood

----------------------------------------------------------------------------
(* main() *)

\* main, lines 70-76: the default file name, from the loaded file's directory
\* or, when that raises, from the working directory.
MainStart ==
    /\ pc = "idle"
    /\ \/ default_filename' = Str("idb", DefaultName)
       \/ default_filename' = Str("cwd", DefaultName)
    /\ pc' = "ask"
    /\ output_path' = NoneValue
    /\ count' = 0
    /\ index' = IndexStart
    /\ current_time' = ""
    /\ md_file' = "none"
    /\ buf' = <<>>
    /\ exc' = ""
    /\ ret' = NotReturned
    /\ log' = <<>>
    /\ dialogs' = <<>>
    /\ UNCHANGED <<funcs, disk, lastGood>>

\* What ida_kernwin.ask_file can return: None (cancelled), an empty string,
\* the default it was given, or another path the user picked.
DialogResults(default) ==
    {NoneValue, EmptyStr, default,
     Str("cwd", "old.md"), Str("cwd", "locked.md"), Str("gone", DefaultName)}

\* main, lines 79-91: ask for the path; return on no path, else call
\* export_functions (line 35: count = 0).  default_filename is not read
\* again after the dialog and is dropped here.
AskFile ==
    /\ pc = "ask"
    /\ \E r \in DialogResults(default_filename) :
        /\ output_path' = r
        /\ IF Cancelled(r)
           THEN /\ log' = Append(log, CancelledMsg)
                /\ pc' = "idle"
           ELSE /\ log' = log
                /\ pc' = "open"
    /\ default_filename' = NoneValue
    /\ count' = 0
    /\ UNCHANGED <<funcs, disk, index, current_time, md_file,
                   buf, exc, ret, dialogs, lastGood>>

\* main, lines 93-95: the info dialog when count > 0; main returns.
MainEnd ==
    /\ pc = "after"
    /\ dialogs' = IF ShowsDialog(ret.value)
                  THEN Append(dialogs, InfoDialog(ret.value, output_path))
                  ELSE dialogs
    /\ lastGood' = IF exc = ""
                   THEN [ok |-> TRUE, path |-> output_path, time |-> current_time,
                         content |-> disk[output_path].content]
                   ELSE NoGood
    /\ pc' = "idle"
    /\ UNCHANGED <<funcs, disk, default_filename, output_path, count, index,
                   current_time, md_file, buf, exc, ret, log>>

----------------------------------------------------------------------------
(* export_functions() *)

\* An exception raised inside the with block: control leaves the block.
Raise(e) ==
    /\ exc' = e
    /\ pc' = "exit"
    /\ UNCHANGED <<funcs, disk, default_filename, output_path, count, index,
                   current_time, md_file, buf, ret, log, dialogs, lastGood>>

\* A successful md_file.write(line), continuing at `next`.
Write(line, next) ==
    /\ buf' = Append(buf, line)
    /\ pc' = next

\* line 38: open(output_path, 'w', encoding='utf-8')
Open ==
    /\ pc = "open"
    /\ \/ /\ CanOpen(output_path)
          /\ disk' = [disk EXCEPT ![output_path] = File(Truncated(@.content))]
          /\ md_file' = "open"
          /\ pc' = "title"
          /\ exc' = exc
       \/ /\ ~CanOpen(output_path)
          /\ exc' = "OSError: cannot open"
          /\ pc' = "except"
          /\ UNCHANGED <<disk, md_file>>
    /\ UNCHANGED <<funcs, default_filename, output_path, count, index,
                   current_time, buf, ret, log, dialogs, lastGood>>

\* lines 40-41: the heading with the binary's name
WriteTitle ==
    /\ pc = "title"
    /\ \/ /\ Write(TitleLine(RootFilename), "time")
          /\ UNCHANGED <<funcs, disk, default_filename, output_path, count, index,
                         current_time, md_file, exc, ret, log, dialogs, lastGood>>
       \/ Raise("RuntimeError: get_root_filename")

\* lines 44-45: the timestamp
WriteTime ==
    /\ pc = "time"
    /\ \/ \E t \in Times :
            /\ current_time' = t
            /\ Write(TimeLine(t), "header")
            /\ UNCHANGED <<funcs, disk, default_filename, output_path, count, index,
                           md_file, exc, ret, log, dialogs, lastGood>>
       \/ Raise("OSError: write")

\* line 48: the table header
WriteHeader ==
    /\ pc = "header"
    /\ \/ /\ Write(HeaderLine, "separator")
          /\ UNCHANGED <<funcs, disk, default_filename, output_path, count, index,
                         current_time, md_file, exc, ret, log, dialogs, lastGood>>
       \/ Raise("OSError: write")

\* line 49: the header's separator
WriteSeparator ==
    /\ pc = "separator"
    /\ \/ /\ Write(SeparatorLine, "loop")
          /\ UNCHANGED <<funcs, disk, default_filename, output_path, count, index,
                         current_time, md_file, exc, ret, log, dialogs, lastGood>>
       \/ Raise("OSError: write")

\* The position in Functions() of the item enumerate yields next.
Position == index - IndexStart + 1

\* lines 52-56: one iteration of the loop
WriteRow ==
    /\ pc = "loop"
    /\ Position <= Len(Functions)
    /\ \/ LET func_ea   == Functions[Position]
              func_name == HostName(func_ea)
          IN  /\ Write(RowLine(index, func_ea, func_name), "loop")
              /\ count' = NextCount(count)
              /\ index' = index + 1
              /\ UNCHANGED <<funcs, disk, default_filename, output_path,
                             current_time, md_file, exc, ret, log, dialogs, lastGood>>
       \/ Raise("RuntimeError: get_name")
       \/ Raise("OSError: write")

\* line 52: Functions() is exhausted
LoopEnd ==
    /\ pc = "loop"
    /\ Position > Len(Functions)
    /\ pc' = "total"
    /\ UNCHANGED <<funcs, disk, default_filename, output_path, count, index,
                   current_time, md_file, buf, exc, ret, log, dialogs, lastGood>>

\* line 59: the summary line
WriteTotal ==
    /\ pc = "total"
    /\ \/ /\ Write(TotalLine(count), AfterTotal)
          /\ UNCHANGED <<funcs, disk, default_filename, output_path, count, index,
                         current_time, md_file, exc, ret, log, dialogs, lastGood>>
       \/ Raise("OSError: write")

Prefix(s, k) == SubSeq(s, 1, k)

\* line 38, the with statement's exit: the buffer is flushed and the file
\* closed, also when an exception is passing through; a flush that fails
\* leaves a part of the buffer in the file and raises.
WithExit ==
    /\ pc = "exit"
    /\ md_file' = ExitHandle(md_file)
    /\ buf' = <<>>
    /\ \/ /\ disk' = [disk EXCEPT ![output_path] = File(@.content \o buf)]
          /\ exc' = exc
          /\ pc' = IF exc = "" THEN "print" ELSE "except"
       \/ \E k \in 0..(Len(buf) - 1) :
            /\ disk' = [disk EXCEPT ![output_path] = File(@.content \o Prefix(buf, k))]
            /\ exc' = "OSError: flush"
            /\ pc' = "except"
    /\ UNCHANGED <<funcs, default_filename, output_path, count, index,
                   current_time, ret, log, dialogs, lastGood>>

\* lines 61-62: the success message and `return count`
PrintSuccess ==
    /\ pc = "print"
    /\ log' = Append(log, SuccessMsg(count, output_path))
    /\ ret' = Returned(count)
    /\ pc' = "after"
    /\ UNCHANGED <<funcs, disk, default_filename, output_path, count, index,
                   current_time, md_file, buf, exc, dialogs, lastGood>>

\* lines 63-65: the except clause
Except ==
    /\ pc = "except"
    /\ log' = Append(log, FailedMsg(exc))
    /\ ret' = Returned(ExceptReturn)
    /\ pc' = "after"
    /\ UNCHANGED <<funcs, disk, default_filename, output_path, count, index,
                   current_time, md_file, buf, exc, dialogs, lastGood>>

----------------------------------------------------------------------------

\* The steps of one invocation after it has started.
Run ==
    \/ AskFile
    \/ Open
    \/ WriteTitle
    \/ WriteTime
    \/ WriteHeader
    \/ WriteSeparator
    \/ WriteRow
    \/ LoopEnd
    \/ WriteTotal
    \/ WithExit
    \/ PrintSuccess
    \/ Except
    \/ MainEnd

Next == MainStart \/ Run

Spec == Init /\ [][Next]_vars

\* The script runs to completion on the host's scripting thread, and the
\* modal dialog is answered.
FairSpec == Spec /\ WF_vars(Run)

----------------------------------------------------------------------------
(* Reading a written file back *)

Rows(content) == SelectSeq(content, LAMBDA l : l.kind = "row")

KindCount(content, kind) == Len(SelectSeq(content, LAMBDA l : l.kind = kind))

Last(s) == s[Len(s)]

DigitValue(c) == CHOOSE k \in 0..15 : HexDigits[k + 1] = c

RECURSIVE NumberOf(_, _)
NumberOf(s, base) ==
    IF s = <<>> THEN 0
    ELSE NumberOf(SubSeq(s, 1, Len(s) - 1), base) * base + DigitValue(Last(s))

\* The number a `0x...` cell denotes (-1 if it lacks the prefix).
HexValue(s) ==
    IF Len(s) >= 3 /\ s[1] = "0" /\ s[2] = "x"
    THEN NumberOf(SubSeq(s, 3, Len(s)), 16) ELSE 0 - 1

DecValue(s) == NumberOf(s, 10)

\* The file export_functions was asked to write.
Target == disk[output_path].content

\* The table is complete: a row for every host function and the summary line.
FullTable(content) ==
    /\ Len(Rows(content)) = Len(funcs)
    /\ content # <<>>
    /\ Last(content) = TotalLine(Len(funcs))

\* A table with some but not all of the rows.
PartialTable(content) ==
    /\ Len(Rows(content)) > 0
    /\ Len(Rows(content)) < Len(funcs)

\* export_functions is running (the program counter is inside it).
InExport ==
    pc \in {"open", "title", "time", "header", "separator", "loop", "total",
            "exit", "print", "except"}

\* export_functions has returned and reported no failure.
Succeeded == ret.returned /\ exc = ""

----------------------------------------------------------------------------
(* C1: a run of export_functions that raises no exception leaves exactly N
   data rows in the file, N being the number of host functions, ends the
   file with the summary line "Total: N functions", and returns N. *)
C1_ExactRows ==
    Succeeded =>
        /\ Len(Rows(Target)) = Len(funcs)
        /\ KindCount(Target, "total") = 1
        /\ Last(Target) = TotalLine(Len(funcs))
        /\ ret.value = Len(funcs)

C1_Witness ==
    /\ pc = "after"
    /\ Succeeded
    /\ Len(funcs) = 2
    /\ Len(Rows(Target)) = 2

(* C2: after any run either the full table has been written or the run is
   reported as failed with return value 0, and a failing run never leaves
   the file holding a table with some but not all rows. *)
C2_NoPartialTable ==
    ret.returned =>
        /\ FullTable(Target) \/ (exc # "" /\ ret.value = 0)
        /\ exc # "" => ~PartialTable(Target)

(* C3: an exception raised in export_functions aborts the writing, is caught
   there, is reported by one "Export failed" message carrying its text, and
   makes the function return 0 to main. *)
C3_ExceptionCaught ==
    exc # "" =>
        /\ pc \in {"exit", "except", "after", "idle"}
        /\ pc \in {"after", "idle"} =>
              /\ ret = Returned(0)
              /\ log = <<FailedMsg(exc)>>

C3_Witness ==
    /\ pc = "after"
    /\ exc = "RuntimeError: get_name"
    /\ count > 0
    /\ ret = Returned(0)

(* C4, as stated: if the output path's directory does not exist or is
   unwritable, export_functions leaves the file at the path as it was and
   returns 0. *)
C4_Original ==
    [][(InExport /\ DirState(output_path.dir) \in {"missing", "unwritable"}) =>
          /\ disk'[output_path] = disk[output_path]
          /\ pc' = "after" => ret' = Returned(0)]_vars

\* The directory is missing, or it is unwritable and the path names no
\* existing file that is itself writable.
OpenRefused(p) ==
    \/ DirState(p.dir) = "missing"
    \/ /\ DirState(p.dir) = "unwritable"
       /\ ~(disk[p].exists /\ FileWritable(p))

(* C4, amended: if the output path's directory does not exist, or is
   unwritable and the path names no existing writable file, export_functions
   leaves the file at the path as it was and returns 0. *)
C4_Amended ==
    [][(InExport /\ OpenRefused(output_path)) =>
          /\ disk'[output_path] = disk[output_path]
          /\ pc' = "after" => ret' = Returned(0)]_vars

C4_Witness ==
    /\ pc = "after"
    /\ output_path = Str("cwd", "locked.md")
    /\ ret = Returned(0)
    /\ disk[output_path] = File(<<ForeignLine>>)

(* C5: a successful run leaves nothing of the path's earlier content (the
   file starts with this run's heading, the only one in it), and a
   successful run that follows a successful run to the same path with the
   same inputs leaves the same content. *)
C5_Overwrite ==
    (pc = "after" /\ Succeeded) =>
        /\ KindCount(Target, "foreign") = 0
        /\ KindCount(Target, "title") = 1
        /\ Target[1] = TitleLine(RootFilename)
        /\ (lastGood.ok /\ lastGood.path = output_path
                        /\ lastGood.time = current_time)
              => Target = lastGood.content

C5_Witness ==
    /\ pc = "after"
    /\ Succeeded
    /\ Len(funcs) > 0
    /\ lastGood.ok
    /\ lastGood.path = output_path
    /\ lastGood.time = current_time
    /\ output_path = Str("cwd", "old.md")

(* C6: in every file and in the buffer the k-th row has index k and carries
   the address (in both columns) and the name of the k-th function in the
   host's order; a successful run has a row for each function. *)
RowsFollowHost(content) ==
    LET rows == Rows(content)
    IN  /\ Len(rows) <= Len(funcs)
        /\ \A k \in 1..Len(rows) :
              /\ rows[k].num = k
              /\ HexValue(rows[k].hex) = funcs[k]
              /\ DecValue(rows[k].dec) = funcs[k]
              /\ rows[k].text = HostName(funcs[k])

C6_RowOrder ==
    /\ RowsFollowHost(buf)
    /\ \A p \in Paths : RowsFollowHost(disk[p].content)
    /\ Succeeded => Len(Rows(Target)) = Len(funcs)

C6_Witness ==
    /\ pc = "after"
    /\ Succeeded
    /\ Len(funcs) = 2
    /\ funcs[1] > funcs[2]
    /\ Len(Rows(Target)) = 2

(* C7: when the dialog returns no path, main logs "Export cancelled" and
   returns: export_functions is not called, no file changes, no dialog is
   shown and no failure message is logged. *)
C7_Cancel ==
    [][(pc = "ask" /\ ~Truthy(output_path')) =>
          /\ pc' = "idle"
          /\ log' = <<CancelledMsg>>
          /\ \A i \in 1..Len(log') : log'[i].kind # "failed"
          /\ ret' = NotReturned
          /\ md_file' = "none"
          /\ disk' = disk
          /\ dialogs' = <<>>]_vars

C7_Witness ==
    /\ pc = "idle"
    /\ output_path = NoneValue
    /\ log = <<CancelledMsg>>

(* C8: main shows the info dialog exactly when export_functions returned a
   count above 0; with count 0 it shows no dialog at all, and no dialog is
   shown before export_functions has returned. *)
C8_Dialog ==
    /\ \A i \in 1..Len(dialogs) : dialogs[i].kind = "info"
    /\ pc # "idle" => dialogs = <<>>
    /\ (pc = "idle" /\ ret.returned) =>
          dialogs = IF ret.value > 0
                    THEN <<InfoDialog(ret.value, output_path)>>
                    ELSE <<>>
    /\ (pc = "idle" /\ ~ret.returned) => dialogs = <<>>

C8_Witness ==
    /\ pc = "idle"
    /\ Succeeded
    /\ ret = Returned(0)
    /\ dialogs = <<>>

(* C9: once control has left the with block the file object is closed, on
   normal completion and after an exception alike; it is never open after
   export_functions has returned. *)
C9_Closed ==
    /\ pc = "print" => md_file = "closed"
    /\ pc \in {"except", "after", "idle"} => md_file # "open"

C9_Witness ==
    /\ pc = "except"
    /\ exc = "OSError: write"
    /\ md_file = "closed"

\* The kind of the i-th line of a complete export.
ExpectedKind(i) ==
    CASE i = 1 -> "title"
      [] i = 2 -> "time"
      [] i = 3 -> "header"
      [] i = 4 -> "separator"
      [] i > 4 /\ i <= 4 + Len(funcs) -> "row"
      [] OTHER -> "total"

C10_Order ==
    /\ pc \notin {"idle", "ask"} => Truthy(output_path)
    /\ pc \in {"ask", "open"} => md_file = "none"
    /\ buf # <<>> => md_file = "open"
    /\ Len(buf) <= 5 + Len(funcs)
    /\ \A i \in 1..Len(buf) : buf[i].kind = ExpectedKind(i)
    /\ (pc = "print" \/ Succeeded) =>
          /\ md_file = "closed"
          /\ buf = <<>>
          /\ Len(Target) = 5 + Len(funcs)
          /\ \A i \in 1..Len(Target) : Target[i].kind = ExpectedKind(i)
    /\ \A i \in 1..Len(log) : log[i].kind = "success" => Succeeded

(* C10: an invocation resolves the path, opens the file, writes heading,
   timestamp and table header, then the rows, then the summary line, then
   closes the file and only then reports and returns the count; and every
   invocation ends back in Idle. *)
C10_Sequential == []C10_Order /\ ((pc # "idle") ~> (pc = "idle"))

C10_Witness ==
    /\ pc = "idle"
    /\ Succeeded
    /\ Len(funcs) = 2
    /\ log = <<SuccessMsg(2, output_path)>>

====
